---------------------------- MODULE Spec2Model ----------------------------
(***************************************************************************)
(* saccharin / sweetener: blood sugar data cleaning and export.            *)
(*                                                                         *)
(* One run of the script is modelled as a state machine whose steps are    *)
(* the statements of the __main__ block: read the CSV, filter by date,     *)
(* derive the features, describe, template the workbook, save it.         *)
(*                                                                         *)
(* Floats are exact rationals n/d plus the IEEE values nan, inf and -inf.  *)
(* Text cells are sequences of code points, so that str.split, sorted,     *)
(* str.strip and str.contains are computed as Python computes them.        *)
(* Column names and statistic names are TLA+ strings.                      *)
(*                                                                         *)
(* The export is taken as pd.read_csv returns it: the ten columns of       *)
(* col_dtypes, float cells parsed, a date cell standing for the calendar   *)
(* day its text denotes (days are numbered) and a time cell for the minute *)
(* of the day.  Of the workbook the model keeps the cells, the table       *)
(* extent and the fill rules; column widths and table styles are left out. *)
(* workbook.save is the library's: it opens the output path, writes the    *)
(* sheets into the archive and closes it, and may fail in between.         *)
(***************************************************************************)
EXTENDS Integers, Sequences, FiniteSets, TLC

VARIABLES
    version,    \* which script runs: "saccharin" or "sweetener"
    args,       \* parsed command line: start_from, outlier_high, outlier_low
    csv,        \* the table pd.read_csv returns for csv_path
    pc,         \* the statement of __main__ the run is at
    err,        \* the exception that ended the run, "" if none
    sugar_df,   \* the records
    stats_df,   \* the statistics table
    lerp_nan,   \* whether this build's quantile interpolation turns inf into nan
    workbook,   \* the Workbook template_excel returns
    out_file,   \* what the path named by --out-xlsx holds
    tags_in,    \* a Tags series as read from the CSV (tag specification)
    tags_sorted,\* sort_tags of it
    tags_again, \* sort_tags of that
    tags_read,  \* the Tags column read_sugar_df returns for it
    tpc         \* how far the tag specification has got

vars == <<version, args, csv, pc, err, sugar_df, stats_df, lerp_nan, workbook,
          out_file, tags_in, tags_sorted, tags_again, tags_read, tpc>>

pipeVars == <<version, args, csv, pc, err, sugar_df, stats_df, lerp_nan,
              workbook, out_file>>

tagVars == <<tags_in, tags_sorted, tags_again, tags_read, tpc>>

-----------------------------------------------------------------------------
(* Bounds of the model *)

MaxRows == 3

MaxTagLen == 4

-----------------------------------------------------------------------------
(* Generic helpers *)

Range(s) == {s[i] : i \in 1..Len(s)}

Abs(x) == IF x < 0 THEN -x ELSE x

RECURSIVE GCD(_, _)
GCD(a, b) == IF b = 0 THEN a ELSE GCD(b, a % b)

Contains(s, x) == \E i \in 1..Len(s) : s[i] = x

-----------------------------------------------------------------------------
(* Cells: one representation for every value a DataFrame or a sheet holds *)

Cell(k, n, d, s) == [kind |-> k, n |-> n, d |-> d, s |-> s]

NaN == Cell("nan", 0, 1, <<>>)

Inf == Cell("inf", 0, 1, <<>>)

NInf == Cell("ninf", 0, 1, <<>>)

\* the float n/d, in lowest terms with a positive denominator
Num(n, d) ==
    LET g == GCD(Abs(n), Abs(d))
        sgn == IF d < 0 THEN -1 ELSE 1
    IN  Cell("num", sgn * (n \div g), sgn * (d \div g), <<>>)

\* a float given in tenths, as the data is written: Tenths(95) is 9.5
Tenths(t) == Num(t, 10)

Str(s) == Cell("str", 0, 1, s)

Bool(b) == Cell("bool", IF b THEN 1 ELSE 0, 1, <<>>)

Date(day) == Cell("date", day, 1, <<>>)

Time(minute) == Cell("time", minute, 1, <<>>)

\* the square root of the rational n/d, kept exact
Sqrt(n, d) == Cell("sqrt", n, d, <<>>)

IsNaN(c) == c.kind = "nan"

IsFinite(c) == c.kind = "num"

IsFloat(c) == c.kind \in {"num", "nan", "inf", "ninf"}

-----------------------------------------------------------------------------
(* IEEE float arithmetic on cells, as numpy and Python compute it *)

\* position of a non-nan float among the extended reals: -inf < finite < inf
Rank(c) == IF c.kind = "ninf" THEN 0 ELSE IF c.kind = "num" THEN 1 ELSE 2

\* Python's a < b on floats: False whenever an operand is nan
FLess(a, b) ==
    /\ ~IsNaN(a)
    /\ ~IsNaN(b)
    /\ IF IsFinite(a) /\ IsFinite(b)
       THEN a.n * b.d < b.n * a.d
       ELSE Rank(a) < Rank(b)

\* Python's a > b on floats
FGreater(a, b) == FLess(b, a)

FAdd(a, b) ==
    IF IsNaN(a) \/ IsNaN(b) THEN NaN
    ELSE IF IsFinite(a) /\ IsFinite(b) THEN Num(a.n * b.d + b.n * a.d, a.d * b.d)
    ELSE IF IsFinite(a) THEN b
    ELSE IF IsFinite(b) THEN a
    ELSE IF a.kind = b.kind THEN a
    ELSE NaN

FNeg(a) ==
    IF IsFinite(a) THEN Num(-a.n, a.d)
    ELSE IF a.kind = "inf" THEN NInf
    ELSE IF a.kind = "ninf" THEN Inf
    ELSE NaN

FSub(a, b) == FAdd(a, FNeg(b))

FMul(a, b) ==
    IF IsNaN(a) \/ IsNaN(b) THEN NaN
    ELSE IF IsFinite(a) /\ IsFinite(b) THEN Num(a.n * b.n, a.d * b.d)
    ELSE LET sa == IF IsFinite(a) THEN a.n ELSE IF a.kind = "inf" THEN 1 ELSE -1
             sb == IF IsFinite(b) THEN b.n ELSE IF b.kind = "inf" THEN 1 ELSE -1
         IN  IF sa = 0 \/ sb = 0 THEN NaN
             ELSE IF (sa > 0) = (sb > 0) THEN Inf ELSE NInf

\* numpy's a / b: x/0 is inf with the sign of x, 0/0 is nan, nothing raises
FDiv(a, b) ==
    IF IsNaN(a) \/ IsNaN(b) THEN NaN
    ELSE IF IsFinite(a) /\ IsFinite(b)
         THEN IF b.n # 0 THEN Num(a.n * b.d, a.d * b.n)
              ELSE IF a.n = 0 THEN NaN
              ELSE IF a.n > 0 THEN Inf ELSE NInf
    ELSE IF IsFinite(b) THEN (IF (a.kind = "inf") = (b.n >= 0) THEN Inf ELSE NInf)
    ELSE IF IsFinite(a) THEN Num(0, 1)
    ELSE NaN

RECURSIVE FSum(_)
FSum(s) == IF s = <<>> THEN Num(0, 1) ELSE FAdd(Head(s), FSum(Tail(s)))

\* the cells of s that are not nan, in order (pandas' skipna)
RECURSIVE DropNaN(_)
DropNaN(s) ==
    IF s = <<>> THEN <<>>
    ELSE IF IsNaN(Head(s)) THEN DropNaN(Tail(s))
    ELSE <<Head(s)>> \o DropNaN(Tail(s))

\* s with x inserted before the first element that x is less than
RECURSIVE FInsert(_, _)
FInsert(x, s) ==
    IF s = <<>> THEN <<x>>
    ELSE IF FLess(x, Head(s)) THEN <<x>> \o s
    ELSE <<Head(s)>> \o FInsert(x, Tail(s))

RECURSIVE FSort(_)
FSort(s) == IF s = <<>> THEN <<>> ELSE FInsert(Head(s), FSort(Tail(s)))

-----------------------------------------------------------------------------
(* Text: a str is the sequence of its code points *)

Comma == 44

\* the characters str.strip() removes
IsSpace(c) == c \in {9, 10, 11, 12, 13, 32}

\* str.split(","): the items between the commas, empty items included
RECURSIVE Split(_)
Split(s) ==
    IF ~Contains(s, Comma) THEN <<s>>
    ELSE LET i == CHOOSE j \in 1..Len(s) :
                      s[j] = Comma /\ \A k \in 1..(j - 1) : s[k] # Comma
         IN  <<SubSeq(s, 1, i - 1)>> \o Split(SubSeq(s, i + 1, Len(s)))

\* ",".join(items)
RECURSIVE Join(_)
Join(items) ==
    IF items = <<>> THEN <<>>
    ELSE IF Len(items) = 1 THEN Head(items)
    ELSE Head(items) \o <<Comma>> \o Join(Tail(items))

\* Python's a < b on str: by code point, a proper prefix is smaller
RECURSIVE StrLess(_, _)
StrLess(a, b) ==
    IF b = <<>> THEN FALSE
    ELSE IF a = <<>> THEN TRUE
    ELSE IF Head(a) # Head(b) THEN Head(a) < Head(b)
    ELSE StrLess(Tail(a), Tail(b))

RECURSIVE StrInsert(_, _)
StrInsert(x, s) ==
    IF s = <<>> THEN <<x>>
    ELSE IF StrLess(x, Head(s)) THEN <<x>> \o s
    ELSE <<Head(s)>> \o StrInsert(x, Tail(s))

\* mutant: the items are left in the order given
Sorted_Unsorted(items) == items

\* sorted(items) on a list of str
RECURSIVE Sorted(_)
Sorted(items) ==
    IF items = <<>> THEN <<>> ELSE StrInsert(Head(items), Sorted(Tail(items)))

RECURSIVE LStrip(_)
LStrip(s) == IF s # <<>> /\ IsSpace(Head(s)) THEN LStrip(Tail(s)) ELSE s

RECURSIVE RStrip(_)
RStrip(s) ==
    IF s # <<>> /\ IsSpace(s[Len(s)]) THEN RStrip(SubSeq(s, 1, Len(s) - 1)) ELSE s

\* s.strip()
Strip(s) == RStrip(LStrip(s))

\* re.search of a literal word in s: the word occurs somewhere in s
HasSubstring(s, w) ==
    \E i \in 0..(Len(s) - Len(w)) : SubSeq(s, i + 1, i + Len(w)) = w

\* the list s without its first occurrence of x
RECURSIVE RemoveOne(_, _)
RemoveOne(s, x) ==
    IF s = <<>> THEN <<>>
    ELSE IF Head(s) = x THEN Tail(s)
    ELSE <<Head(s)>> \o RemoveOne(Tail(s), x)

\* whether list b is list a in another order
RECURSIVE IsPermutation(_, _)
IsPermutation(a, b) ==
    IF a = <<>> THEN b = <<>>
    ELSE Contains(b, Head(a)) /\ IsPermutation(Tail(a), RemoveOne(b, Head(a)))

-----------------------------------------------------------------------------
(* DataFrames: the column labels in order, and the rows as maps from label *)
(* to cell.  A Series is the sequence of one column's cells.               *)

DataFrame(cols, rows) == [cols |-> cols, rows |-> rows]

NRows(df) == Len(df.rows)

HasColumn(df, c) == Contains(df.cols, c)

\* df[c]
Column(df, c) == [i \in 1..NRows(df) |-> df.rows[i][c]]

\* df[c] = values: replaces the column in place, or appends it as the last one
SetColumn(df, c, values) ==
    LET cols == IF HasColumn(df, c) THEN df.cols ELSE Append(df.cols, c)
    IN  DataFrame(cols,
            [i \in 1..NRows(df) |->
                [k \in Range(cols) |-> IF k = c THEN values[i] ELSE df.rows[i][k]]])

\* the elements of s whose index satisfies keep, in order
RECURSIVE SelectIdx(_, _, _)
SelectIdx(s, keep, i) ==
    IF i > Len(s) THEN <<>>
    ELSE IF keep[i] THEN <<s[i]>> \o SelectIdx(s, keep, i + 1)
    ELSE SelectIdx(s, keep, i + 1)

\* df[mask]: the rows whose mask is True, in their order
Mask(df, mask) == DataFrame(df.cols, SelectIdx(df.rows, mask, 1))

\* df restricted to the columns that satisfy keep, in their order
KeepColumns(df, keep) ==
    LET cols == SelectIdx(df.cols, [i \in 1..Len(df.cols) |-> keep[df.cols[i]]], 1)
    IN  DataFrame(cols,
            [i \in 1..NRows(df) |-> [k \in Range(cols) |-> df.rows[i][k]]])

\* df.applymap(f) for the f of drop_empty: strip the str cells
StripCell(c) == IF c.kind = "str" THEN Str(Strip(c.s)) ELSE c

\* df.replace("", np.nan) on one cell
BlankToNaN(c) == IF c.kind = "str" /\ c.s = <<>> THEN NaN ELSE c

-----------------------------------------------------------------------------
(* Feature extraction and engineering (saccharin.py) *)

\* to_float on one cell: to_numeric(coerce), fillna(default), astype(float)
to_float_cell(c, default) == IF IsFloat(c) /\ ~IsNaN(c) THEN c ELSE default

to_float(s, default) == [i \in 1..Len(s) |-> to_float_cell(s[i], default)]

drop_empty(df) ==
    LET clean == DataFrame(df.cols,
                    [i \in 1..NRows(df) |->
                        [k \in Range(df.cols) |-> BlankToNaN(StripCell(df.rows[i][k]))]])
        keep == [k \in Range(df.cols) |->
                    \E i \in 1..NRows(clean) : ~IsNaN(clean.rows[i][k])]
    IN  KeepColumns(clean, keep)

\* sort_tags on one cell: a missing cell is no list and passes through
sort_tags_cell(c) == IF c.kind = "str" THEN Str(Join(Sorted(Split(c.s)))) ELSE c

sort_tags(tags) == [i \in 1..Len(tags) |-> sort_tags_cell(tags[i])]

\* read_sugar_df of saccharin.py, applied to what pd.read_csv returned
read_sugar_df(table) ==
    drop_empty(SetColumn(table, "Tags", sort_tags(Column(table, "Tags"))))

\* read_sugar_df of sweetener.py: the columns as read, nothing dropped or sorted
sweetener_read_sugar_df(table) == table

\* mutant: the limits themselves count as outliers (>= and <=)
label_outlier_Inclusive(sugar_level, outlier_high, outlier_low) ==
    IF ~FLess(sugar_level, outlier_high) /\ ~IsNaN(sugar_level) THEN Str(<<72, 105, 103, 104>>)
    ELSE IF ~FGreater(sugar_level, outlier_low) /\ ~IsNaN(sugar_level) THEN Str(<<76, 111, 119>>)
    ELSE Str(<<>>)

label_outlier(sugar_level, outlier_high, outlier_low) ==
    IF FGreater(sugar_level, outlier_high) THEN Str(<<72, 105, 103, 104>>)
    ELSE IF FLess(sugar_level, outlier_low) THEN Str(<<76, 111, 119>>)
    ELSE Str(<<>>)

-----------------------------------------------------------------------------
(* Names and literals of the scripts *)

DateCol == "Date"

TimeCol == "Time"

TagsCol == "Tags"

SugarCol == "Blood Sugar Measurement (mmol/L)"

BasalCol == "Basal Injection Units"

InsulinMealCol == "Insulin (Meal)"

InsulinCorrectionCol == "Insulin (Correction)"

CarbsCol == "Meal Carbohydrates (Grams, Factor 1)"

DescriptionsCol == "Meal Descriptions"

NoteCol == "Note"

HyperCol == "Hyperglycemia"

HypoCol == "Hypoglycemia"

TotalInsulinCol == "Total Insulin (Meal)"

ICRCol == "Insulin Carb Ratio (ICR)"

OutlierCol == "Outlier"

\* col_dtypes: the columns of the CSV export, in its order
col_dtypes ==
    <<DateCol, TimeCol, TagsCol, SugarCol, BasalCol, InsulinMealCol,
      InsulinCorrectionCol, CarbsCol, DescriptionsCol, NoteCol>>

\* the columns pandas holds as float64: the np.float64 entries of col_dtypes
\* and the two float columns __main__ derives
FloatCols == {SugarCol, BasalCol, InsulinMealCol, InsulinCorrectionCol, CarbsCol,
              TotalInsulinCol, ICRCol}

\* 10.0 and 4.0, the glycemia limits of __main__
HyperLimit == Num(10, 1)

\* mutant: the hypoglycemia limit written as 40 instead of 4.0
HypoLimit_Forty == Num(40, 1)

HypoLimit == Num(4, 1)

Yes == <<121, 101, 115>>

No == <<110, 111>>

High == <<72, 105, 103, 104>>

Low == <<76, 111, 119>>

Breakfast == <<66, 114, 101, 97, 107, 102, 97, 115, 116>>

Lunch == <<76, 117, 110, 99, 104>>

Dinner == <<68, 105, 110, 110, 101, 114>>

Snack == <<83, 110, 97, 99, 107>>

meal_tags == <<Breakfast, Lunch, Dinner, Snack>>

\* the index of stats_df once "25%" and "75%" are dropped and "50%" is renamed
StatRows == <<"count", "mean", "std", "min", "median", "max">>

\* args.start_from when --start-from is not given
None == Cell("none", 0, 1, <<>>)

IsTrue(c) == c = Bool(TRUE)

-----------------------------------------------------------------------------
(* Series statistics, as DataFrame.describe computes them (NaN skipped) *)

SCount(s) == Num(Len(DropNaN(s)), 1)

SMean(s) ==
    LET v == DropNaN(s)
    IN  IF v = <<>> THEN NaN ELSE FDiv(FSum(v), Num(Len(v), 1))

\* sample standard deviation (ddof = 1); nan when a deviation is inf - inf
SStd(s) ==
    LET v == DropNaN(s)
        m == SMean(s)
        sq == [i \in 1..Len(v) |-> FMul(FSub(v[i], m), FSub(v[i], m))]
        var == FDiv(FSum(sq), Num(Len(v) - 1, 1))
    IN  IF Len(v) < 2 THEN NaN
        ELSE IF \E i \in 1..Len(v) : ~IsFinite(v[i]) THEN NaN
        ELSE Sqrt(var.n, var.d)

SMin(s) ==
    LET v == FSort(DropNaN(s))
    IN  IF v = <<>> THEN NaN ELSE v[1]

SMax(s) ==
    LET v == FSort(DropNaN(s))
    IN  IF v = <<>> THEN NaN ELSE v[Len(v)]

\* the 50% quantile with linear interpolation between the two middle values.
\* lerp: the build interpolates as a + (b - a) * t even when t = 0, which
\* makes nan of an infinite neighbour; otherwise the middle value is taken
\* as it is.  On finite data the two agree.
SMedian(s, lerp) ==
    LET v == FSort(DropNaN(s))
        n == Len(v)
        lo == (n + 1) \div 2
        hi == IF n % 2 = 0 THEN lo + 1 ELSE IF lerp /\ lo < n THEN lo + 1 ELSE lo
        half == Num(1, 2)
    IN  IF n = 0 THEN NaN
        ELSE IF n % 2 = 0
             THEN IF lerp THEN FSub(v[hi], FMul(FSub(v[hi], v[lo]), half))
                  ELSE FMul(FAdd(v[lo], v[hi]), half)
        ELSE IF lerp THEN FAdd(v[lo], FMul(FSub(v[hi], v[lo]), Num(0, 1)))
        ELSE v[lo]

Stat(name, s, lerp) ==
    CASE name = "count" -> SCount(s)
      [] name = "mean" -> SMean(s)
      [] name = "std" -> SStd(s)
      [] name = "min" -> SMin(s)
      [] name = "median" -> SMedian(s, lerp)
      [] name = "max" -> SMax(s)

\* a column label of stats_df: the text of tag followed by that of name.
\* The columns describe yields carry a DataFrame column's name and no tag.
Label(name) == [tag |-> <<>>, name |-> name]

\* f"{s} (mmol/L)" for a Tags string s
MealLabel(s) == [tag |-> s, name |-> " (mmol/L)"]

\* a statistics table: column labels in order, and cells[statistic][column]
StatsTable(cols, cells) == [cols |-> cols, cells |-> cells]

NoStats == StatsTable(<<>>, [r \in Range(StatRows) |-> <<>>])

\* df.describe().drop(["25%", "75%"]).rename(index={"50%": "median"}):
\* the float columns of df in their order; bool and object columns are left out
describe(df, lerp) ==
    LET names == SelectIdx(df.cols,
                    [i \in 1..Len(df.cols) |-> df.cols[i] \in FloatCols], 1)
        cols == [i \in 1..Len(names) |-> Label(names[i])]
    IN  StatsTable(cols,
            [r \in Range(StatRows) |->
                [c \in Range(cols) |-> Stat(r, Column(df, c.name), lerp)]])

\* stats_df.loc[row, col] = value: a new column is appended, nan elsewhere
SetStat(st, row, col, value) ==
    LET cols == IF Contains(st.cols, col) THEN st.cols ELSE Append(st.cols, col)
    IN  StatsTable(cols,
            [r \in Range(StatRows) |->
                [c \in Range(cols) |->
                    IF r = row /\ c = col THEN value
                    ELSE IF Contains(st.cols, c) THEN st.cells[r][c]
                    ELSE NaN]])

\* mutant: the count taken of the whole column, not of the flagged records
glycemia_count_AllRecords(df, glycemia) == Num(NRows(df), 1)

\* sugar_df[sugar_df[glycemia]][glycemia].agg("count")
glycemia_count(df, glycemia) ==
    LET flagged == Mask(df, [i \in 1..NRows(df) |-> IsTrue(df.rows[i][glycemia])])
    IN  Num(NRows(flagged), 1)

\* the distinct elements of a list of str, sorted: the group keys of groupby
GroupKeys(s) ==
    LET RECURSIVE Dedup(_)
        Dedup(l) ==
            IF l = <<>> THEN <<>>
            ELSE IF Contains(Tail(l), Head(l)) THEN Dedup(Tail(l))
            ELSE <<Head(l)>> \o Dedup(Tail(l))
    IN  Sorted(Dedup(s))

\* Series.str.contains("|".join(meal_tags), na=False) on one cell
contains_meal_tag(c) ==
    /\ c.kind = "str"
    /\ \E i \in 1..Len(meal_tags) : HasSubstring(c.s, meal_tags[i])

\* meal_sugar_df: the rows of df whose Tags name a meal
meal_sugar_df(df) ==
    Mask(df, [i \in 1..NRows(df) |-> contains_meal_tag(df.rows[i][TagsCol])])

\* groupby(by="Tags").agg("mean") of the blood sugar column: the keys in
\* sorted order, and for each key the mean over the rows of its group
meal_keys(df) ==
    LET m == meal_sugar_df(df)
    IN  GroupKeys([i \in 1..NRows(m) |-> m.rows[i][TagsCol].s])

\* mutant: the mean taken over every meal record, the grouping forgotten
meal_mean_Ungrouped(df, key) == SMean(Column(meal_sugar_df(df), SugarCol))

meal_mean(df, key) ==
    LET m == meal_sugar_df(df)
        group == Mask(m, [i \in 1..NRows(m) |-> m.rows[i][TagsCol].s = key])
    IN  SMean(Column(group, SugarCol))

\* stats_df.join(meal_stats_df.T): one column per group, labelled with the
\* suffixed key, its "mean" row set and every other row nan
RECURSIVE join_meal_stats(_, _, _)
join_meal_stats(st, df, keys) ==
    IF keys = <<>> THEN st
    ELSE join_meal_stats(
            SetStat(st, "mean", MealLabel(Head(keys)), meal_mean(df, Head(keys))),
            df, Tail(keys))

-----------------------------------------------------------------------------
(* Excel templating (template_excel and its helpers) *)

\* the one-decimal text of a number, named by its value in tenths: "7.5" is Dec1(75)
Dec1(t) == Cell("dec1", t, 10, <<>>)

\* a/b rounded to the nearest integer, a tie going to the even one (b > 0)
RoundHalfEven(a, b) ==
    LET q == a \div b
        r == a % b
    IN  IF 2 * r < b THEN q
        ELSE IF 2 * r > b THEN q + 1
        ELSE IF q % 2 = 0 THEN q ELSE q + 1

\* the integer nearest to 10 * sqrt(n/d), searched upwards from t
RECURSIVE SqrtTenths(_, _, _)
SqrtTenths(n, d, t) ==
    IF 400 * n < (2 * t + 1) * (2 * t + 1) * d THEN t ELSE SqrtTenths(n, d, t + 1)

\* lambda stat: "" if np.isnan(stat) else "{:.1f}".format(stat)
format_stat(stat) ==
    CASE stat.kind = "nan" -> Str(<<>>)
      [] stat.kind = "inf" -> Str(<<105, 110, 102>>)
      [] stat.kind = "ninf" -> Str(<<45, 105, 110, 102>>)
      [] stat.kind = "sqrt" -> Dec1(SqrtTenths(stat.n, stat.d, 0))
      [] stat.kind = "num" -> Dec1(RoundHalfEven(10 * stat.n, stat.d))

\* bool_to_str
bool_to_str(has) == IF IsTrue(has) THEN Str(Yes) ELSE Str(No)

\* the calendar of the model: day 1 is 30/03/2024, day 2 is 31/03/2024, day 3
\* is 01/04/2024 and so on within April; strftime("%m|%y") of a date
month_year(date) == IF date.n <= 2 THEN <<3, 24>> ELSE <<4, 24>>

\* date_prefix: the month|year of the first and of the last date
date_prefix(df) ==
    LET days == {df.rows[i][DateCol].n : i \in 1..NRows(df)}
        lo == CHOOSE x \in days : \A y \in days : x <= y
        hi == CHOOSE x \in days : \A y \in days : y <= x
    IN  <<month_year(Date(lo)), month_year(Date(hi))>>

\* sugar_df with the two glycemia columns turned into "yes"/"no"
with_flag_text(df) ==
    LET hyper == SetColumn(df, HyperCol,
                    [i \in 1..NRows(df) |-> bool_to_str(df.rows[i][HyperCol])])
    IN  SetColumn(hyper, HypoCol,
            [i \in 1..NRows(df) |-> bool_to_str(hyper.rows[i][HypoCol])])

\* a worksheet after dataframe_to_rows and convert_table: row 1 is the header,
\* the table spans every cell
Sheet(prefix, name, header, index, rows) ==
    [title |-> <<prefix, name>>, header |-> header, index |-> index, rows |-> rows,
     table |-> [max_row |-> Len(rows) + 1, max_col |-> Len(header)]]

sugar_sheet(df) ==
    Sheet(date_prefix(df), "Blood Sugar", df.cols, <<>>,
          [i \in 1..NRows(df) |-> [j \in 1..Len(df.cols) |-> df.rows[i][df.cols[j]]]])

\* the statistics sheet: the statistic names down the first column
stats_sheet(df, st) ==
    Sheet(date_prefix(df), "Statistics", st.cols, StatRows,
          [i \in 1..Len(StatRows) |->
              [j \in 1..Len(st.cols) |-> format_stat(st.cells[StatRows[i]][st.cols[j]])]])

\* a FormulaRule over the table: OR($col1 = "text", ...) for the listed columns
\* and texts, filling with color
FillRule(cols, texts, color) == [cols |-> cols, texts |-> texts, color |-> color]

\* the column of the table the first operand of the first rule reads
hyper_col(max_col) == max_col - 2

\* the column the second operand of the first rule reads
hypo_col(max_col) == max_col - 1

\* the column the second rule reads
outlier_col(max_col) == max_col

conditional_formatting(sheet) ==
    LET max_col == sheet.table.max_col
    IN  <<FillRule(<<hyper_col(max_col), hypo_col(max_col)>>, {Yes}, "FF7F7F"),
          FillRule(<<outlier_col(max_col)>>, {High, Low}, "FFD580")>>

NoWorkbook == [sheets |-> <<>>, rules |-> <<>>]

template_excel(df, st) ==
    LET text == with_flag_text(df)
        sugar_ws == sugar_sheet(text)
    IN  [sheets |-> <<sugar_ws, stats_sheet(text, st)>>,
         rules |-> conditional_formatting(sugar_ws)]

\* template_excel of sweetener.py: the same two sheets, no fill rules
sweetener_template_excel(df, st) ==
    LET text == with_flag_text(df)
    IN  [sheets |-> <<sugar_sheet(text), stats_sheet(text, st)>>, rules |-> <<>>]

\* Excel's lower-casing of a letter: its text comparison ignores case
Lower(c) == IF c \in 65..90 THEN c + 32 ELSE c

\* Excel's cell = "text": true of a text cell with that text, false of a
\* number, a blank or a date
ExcelEq(c, text) ==
    /\ c.kind = "str"
    /\ Len(c.s) = Len(text)
    /\ \A i \in 1..Len(text) : Lower(c.s[i]) = Lower(text[i])

\* whether a fill rule fires on row r of the sheet (row 1 is the header, whose
\* cells are column names: no column is named yes, High or Low)
RuleFires(sheet, rule, r) ==
    /\ r > 1
    /\ \E j \in 1..Len(rule.cols) : \E text \in rule.texts :
          ExcelEq(sheet.rows[r - 1][rule.cols[j]], text)

-----------------------------------------------------------------------------
(* The run: one action per statement of __main__ *)

\* an exception leaves __main__: the run ends where it is
Raise(e) == pc' = "failed" /\ err' = e

\* mutant: the starting date itself is left out (> for >=)
start_from_filter_Exclusive(df, start_from) ==
    Mask(df, [i \in 1..NRows(df) |-> df.rows[i][DateCol].n > start_from.n])

\* sugar_df[sugar_df["Date"] >= args.start_from]
start_from_filter(df, start_from) ==
    Mask(df, [i \in 1..NRows(df) |-> df.rows[i][DateCol].n >= start_from.n])

\* the two glycemia columns of a blood sugar series
hyperglycemia(sugar) == [i \in 1..Len(sugar) |-> Bool(FGreater(sugar[i], HyperLimit))]

hypoglycemia(sugar) == [i \in 1..Len(sugar) |-> Bool(FLess(sugar[i], HypoLimit))]

\* to_float(meal, 0.0) + to_float(correction, 0.0)
total_insulin(meal, correction) ==
    [i \in 1..Len(meal) |->
        FAdd(to_float(meal, Num(0, 1))[i], to_float(correction, Num(0, 1))[i])]

\* carbohydrates / total insulin, elementwise
insulin_carb_ratio(carbs, total) == [i \in 1..Len(carbs) |-> FDiv(carbs[i], total[i])]

\* the file the output path holds: absent, partial (opened, the zip archive
\* not closed) or complete, and the sheets written into it so far
OutFile(state, sheets) == [state |-> state, sheets |-> sheets]

ReadSugarDf ==
    /\ pc = "read"
    /\ sugar_df' = IF version = "saccharin" THEN read_sugar_df(csv)
                   ELSE sweetener_read_sugar_df(csv)
    /\ pc' = "filter"
    /\ UNCHANGED <<tagVars, version, args, csv, err, stats_df, lerp_nan, workbook, out_file>>

FilterStartFrom ==
    /\ pc = "filter"
    /\ IF args.start_from = None
       THEN pc' = "glycemia" /\ UNCHANGED <<sugar_df, err>>
       ELSE IF HasColumn(sugar_df, DateCol)
       THEN /\ sugar_df' = start_from_filter(sugar_df, args.start_from)
            /\ pc' = "glycemia"
            /\ UNCHANGED err
       ELSE Raise("KeyError") /\ UNCHANGED sugar_df
    /\ UNCHANGED <<tagVars, version, args, csv, stats_df, lerp_nan, workbook, out_file>>

AddGlycemia ==
    /\ pc = "glycemia"
    /\ IF HasColumn(sugar_df, SugarCol)
       THEN /\ sugar_df' =
                 LET sugar == Column(sugar_df, SugarCol)
                 IN  SetColumn(SetColumn(sugar_df, HyperCol, hyperglycemia(sugar)),
                               HypoCol, hypoglycemia(sugar))
            /\ pc' = IF version = "saccharin" THEN "icr" ELSE "describe"
            /\ UNCHANGED err
       ELSE Raise("KeyError") /\ UNCHANGED sugar_df
    /\ UNCHANGED <<tagVars, version, args, csv, stats_df, lerp_nan, workbook, out_file>>

AddInsulinCarbRatio ==
    /\ pc = "icr"
    /\ IF ~(HasColumn(sugar_df, InsulinMealCol) /\ HasColumn(sugar_df, InsulinCorrectionCol))
       THEN Raise("KeyError") /\ UNCHANGED sugar_df
       ELSE IF HasColumn(sugar_df, CarbsCol)
       THEN /\ sugar_df' =
                 LET total == SetColumn(sugar_df, TotalInsulinCol,
                                  total_insulin(Column(sugar_df, InsulinMealCol),
                                                Column(sugar_df, InsulinCorrectionCol)))
                 IN  SetColumn(total, ICRCol,
                         insulin_carb_ratio(Column(total, CarbsCol),
                                            Column(total, TotalInsulinCol)))
            /\ pc' = "outlier"
            /\ UNCHANGED err
       ELSE /\ Raise("KeyError")
            /\ sugar_df' = SetColumn(sugar_df, TotalInsulinCol,
                               total_insulin(Column(sugar_df, InsulinMealCol),
                                             Column(sugar_df, InsulinCorrectionCol)))
    /\ UNCHANGED <<tagVars, version, args, csv, stats_df, lerp_nan, workbook, out_file>>

AddOutlier ==
    /\ pc = "outlier"
    /\ sugar_df' = SetColumn(sugar_df, OutlierCol,
                      [i \in 1..NRows(sugar_df) |->
                          label_outlier(sugar_df.rows[i][SugarCol],
                                        args.outlier_high, args.outlier_low)])
    /\ pc' = "describe"
    /\ UNCHANGED <<tagVars, version, args, csv, err, stats_df, lerp_nan, workbook, out_file>>

\* whether a float column of df holds an infinity: only then do the builds'
\* quantile interpolations differ
HasInf(df) ==
    \E i \in 1..NRows(df) : \E c \in Range(df.cols) :
        df.rows[i][c].kind \in {"inf", "ninf"}

Describe ==
    /\ pc = "describe"
    /\ \E lerp \in (IF HasInf(sugar_df) THEN BOOLEAN ELSE {FALSE}) :
          /\ lerp_nan' = lerp
          /\ stats_df' = describe(sugar_df, lerp)
    /\ pc' = "counts"
    /\ UNCHANGED <<tagVars, version, args, csv, err, sugar_df, workbook, out_file>>

GlycemiaCounts ==
    /\ pc = "counts"
    /\ stats_df' = SetStat(SetStat(stats_df, "count", Label(HyperCol),
                                   glycemia_count(sugar_df, HyperCol)),
                           "count", Label(HypoCol), glycemia_count(sugar_df, HypoCol))
    /\ pc' = IF version = "saccharin" THEN "meal" ELSE "template"
    /\ UNCHANGED <<tagVars, version, args, csv, err, sugar_df, lerp_nan, workbook, out_file>>

MealStats ==
    /\ pc = "meal"
    /\ IF HasColumn(sugar_df, TagsCol)
       THEN /\ stats_df' = join_meal_stats(stats_df, sugar_df, meal_keys(sugar_df))
            /\ pc' = "template"
            /\ UNCHANGED err
       ELSE Raise("KeyError") /\ UNCHANGED stats_df
    /\ UNCHANGED <<tagVars, version, args, csv, sugar_df, lerp_nan, workbook, out_file>>

\* template_excel: min() of no dates is nan, which has no strftime
TemplateExcel ==
    /\ pc = "template"
    /\ IF ~HasColumn(sugar_df, DateCol)
       THEN Raise("KeyError") /\ UNCHANGED <<sugar_df, workbook>>
       ELSE IF NRows(sugar_df) = 0
       THEN /\ Raise("AttributeError")
            /\ sugar_df' = IF version = "saccharin" THEN sugar_df
                           ELSE with_flag_text(sugar_df)
            /\ UNCHANGED workbook
       ELSE /\ workbook' = IF version = "saccharin"
                           THEN template_excel(sugar_df, stats_df)
                           ELSE sweetener_template_excel(sugar_df, stats_df)
            /\ sugar_df' = with_flag_text(sugar_df)
            /\ pc' = "save"
            /\ UNCHANGED err
    /\ UNCHANGED <<tagVars, version, args, csv, stats_df, lerp_nan, out_file>>

\* workbook.save(args.out_xlsx) opens the path itself for writing
SaveOpen ==
    /\ pc = "save"
    /\ out_file' = OutFile("partial", <<>>)
    /\ pc' = "saving"
    /\ UNCHANGED <<tagVars, version, args, csv, err, sugar_df, stats_df, lerp_nan, workbook>>

\* the path cannot be opened for writing
SaveOpenFails ==
    /\ pc = "save"
    /\ Raise("OSError")
    /\ UNCHANGED <<tagVars, version, args, csv, sugar_df, stats_df, lerp_nan, workbook, out_file>>

\* the next sheet is written into the open archive
SaveWrite ==
    /\ pc = "saving"
    /\ Len(out_file.sheets) < Len(workbook.sheets)
    /\ out_file' = OutFile("partial",
                      Append(out_file.sheets, workbook.sheets[Len(out_file.sheets) + 1]))
    /\ UNCHANGED <<tagVars, version, args, csv, pc, err, sugar_df, stats_df, lerp_nan, workbook>>

\* the archive is closed: the file is a workbook
SaveClose ==
    /\ pc = "saving"
    /\ Len(out_file.sheets) = Len(workbook.sheets)
    /\ out_file' = OutFile("complete", out_file.sheets)
    /\ pc' = "done"
    /\ UNCHANGED <<tagVars, version, args, csv, err, sugar_df, stats_df, lerp_nan, workbook>>

\* a write fails (disk full, I/O error): save raises, and nothing in __main__
\* catches it or removes what was written
SaveFails ==
    /\ pc = "saving"
    /\ Raise("OSError")
    /\ UNCHANGED <<tagVars, version, args, csv, sugar_df, stats_df, lerp_nan, workbook, out_file>>

Next ==
    \/ ReadSugarDf
    \/ FilterStartFrom
    \/ AddGlycemia
    \/ AddInsulinCarbRatio
    \/ AddOutlier
    \/ Describe
    \/ GlycemiaCounts
    \/ MealStats
    \/ TemplateExcel
    \/ SaveOpen
    \/ SaveOpenFails
    \/ SaveWrite
    \/ SaveClose
    \/ SaveFails

-----------------------------------------------------------------------------
(* Inputs: what pd.read_csv returns for an export with the ten columns, and *)
(* the command line                                                        *)

\* one row of the export
Row(date, time, tags, sugar, basal, meal, correction, carbs, descriptions, note) ==
    [c \in Range(col_dtypes) |->
        CASE c = DateCol -> date
          [] c = TimeCol -> time
          [] c = TagsCol -> tags
          [] c = SugarCol -> sugar
          [] c = BasalCol -> basal
          [] c = InsulinMealCol -> meal
          [] c = InsulinCorrectionCol -> correction
          [] c = CarbsCol -> carbs
          [] c = DescriptionsCol -> descriptions
          [] c = NoteCol -> note]

\* the exports of one to MaxRows rows drawn from a set of rows
Tables(rows) ==
    {DataFrame(col_dtypes, r) : r \in UNION {[1..n -> rows] : n \in 1..MaxRows}}

Args(start_from, outlier_high, outlier_low) ==
    [start_from |-> start_from, outlier_high |-> outlier_high,
     outlier_low |-> outlier_low]

\* the defaults of --outlier-high and --outlier-low
DefaultHigh == Tenths(95)

DefaultLow == Tenths(45)

Morning == Time(480)

Night == Time(1380)

\* the state at the start of a run of either script on an export
InitRun(versions, argset, tables) ==
    /\ version \in versions
    /\ args \in argset
    /\ csv \in tables
    /\ pc = "read"
    /\ err = ""
    /\ sugar_df = DataFrame(<<>>, <<>>)
    /\ stats_df = NoStats
    /\ lerp_nan = FALSE
    /\ workbook = NoWorkbook
    /\ out_file = OutFile("absent", <<>>)
    /\ tags_in = <<>>
    /\ tags_sorted = <<>>
    /\ tags_again = <<>>
    /\ tags_read = <<>>
    /\ tpc = "off"

\* the values every row takes where a specification does not vary them
RowWith(date, time, tags, sugar, meal, correction, carbs) ==
    Row(date, time, tags, sugar, Num(10, 1), meal, correction, carbs, NaN, NaN)

\* blood sugar readings around the glycemia limits: missing, 3.0, 4.0, 7.0,
\* 10.0 and 11.0 mmol/L
SugarLevels == {NaN, Tenths(30), Tenths(40), Tenths(70), Tenths(100), Tenths(110)}

SugarRows ==
    {RowWith(Date(1), Morning, Str(Lunch), g, Num(2, 1), Num(1, 1), Num(30, 1)) :
        g \in SugarLevels}

\* runs of both scripts with the default outlier limits over blood sugar
\* readings around the glycemia limits
Init ==
    InitRun({"saccharin", "sweetener"}, {Args(None, DefaultHigh, DefaultLow)},
            Tables(SugarRows))

Spec == Init /\ [][Next]_vars

\* blood sugar readings around the outlier limits: missing, 3.0, 4.5, 7.0,
\* 9.5 and 11.0 mmol/L
OutlierLevels == {NaN, Tenths(30), Tenths(45), Tenths(70), Tenths(95), Tenths(110)}

OutlierRows ==
    {RowWith(Date(1), Morning, Str(Lunch), g, Num(2, 1), Num(1, 1), Num(30, 1)) :
        g \in OutlierLevels}

\* the default outlier limits, and a configuration with the two exchanged
OutlierArgs ==
    {Args(None, DefaultHigh, DefaultLow), Args(None, DefaultLow, DefaultHigh)}

InitOutlier == InitRun({"saccharin"}, OutlierArgs, Tables(OutlierRows))

SpecOutlier == InitOutlier /\ [][Next]_vars

\* the dates of the exports, and the values of --start-from
Days == {1, 2, 3}

\* a morning reading on each day and a night reading on all but the last
FilterRows ==
    {RowWith(Date(d), Morning, Str(Lunch), Tenths(70), Num(2, 1), Num(1, 1), Num(30, 1)) :
        d \in Days}
    \cup {RowWith(Date(d), Night, Str(Lunch), Tenths(70), Num(2, 1), Num(1, 1), Num(30, 1)) :
            d \in Days \ {3}}

FilterArgs ==
    {Args(s, DefaultHigh, DefaultLow) : s \in {None} \cup {Date(d) : d \in Days}}

InitFilter == InitRun({"saccharin", "sweetener"}, FilterArgs, Tables(FilterRows))

SpecFilter == InitFilter /\ [][Next]_vars

\* insulin and carbohydrate cells: missing, zero and positive doses
InsulinRows ==
    {RowWith(Date(1), Morning, Str(Lunch), Tenths(70), meal, correction, carbs) :
        meal \in {NaN, Num(0, 1), Num(2, 1)},
        correction \in {NaN, Num(1, 1)},
        carbs \in {NaN, Num(30, 1)}}

InitInsulin ==
    InitRun({"saccharin"}, {Args(None, DefaultHigh, DefaultLow)}, Tables(InsulinRows))

SpecInsulin == InitInsulin /\ [][Next]_vars

\* "Gym" and "Snacks"
Gym == <<71, 121, 109>>

Snacks == Snack \o <<115>>

\* rows whose Tags are one meal pair in either order, a tag that holds a meal
\* word inside a longer word, a tag that names no meal, or missing
MealRows ==
    {RowWith(Date(1), Morning, tags, g, Num(2, 1), Num(1, 1), Num(30, 1)) :
        tags \in {Str(Lunch \o <<Comma>> \o Breakfast), Str(Breakfast \o <<Comma>> \o Lunch)},
        g \in {Tenths(50), Tenths(80)}}
    \cup {RowWith(Date(1), Morning, Str(Snacks), g, Num(2, 1), Num(1, 1), Num(30, 1)) :
            g \in {NaN, Tenths(50), Tenths(80)}}
    \cup {RowWith(Date(1), Morning, Str(Gym), Tenths(50), Num(2, 1), Num(1, 1), Num(30, 1)),
          RowWith(Date(1), Morning, NaN, Tenths(80), Num(2, 1), Num(1, 1), Num(30, 1))}

InitMeal ==
    InitRun({"saccharin"}, {Args(None, DefaultHigh, DefaultLow)}, Tables(MealRows))

SpecMeal == InitMeal /\ [][Next]_vars

-----------------------------------------------------------------------------
(* The tag specification: sort_tags and read_sugar_df on one Tags cell *)

\* the characters of the bounded tag strings: "," " " "1" "9"
TagAlphabet == {Comma, 32, 49, 57}

\* every str of one to MaxTagLen characters
TagStrings == UNION {[1..n -> TagAlphabet] : n \in 1..MaxTagLen}

\* the Tags column of read_sugar_df's result for a one-row export, nan when
\* drop_empty dropped the column
read_tags(tags) ==
    LET table == DataFrame(col_dtypes,
                    <<RowWith(Date(1), Morning, tags[1], Tenths(70), Num(2, 1),
                              Num(1, 1), Num(30, 1))>>)
        df == read_sugar_df(table)
    IN  IF HasColumn(df, TagsCol) THEN Column(df, TagsCol) ELSE <<NaN>>

InitTags ==
    /\ tags_in \in {<<Str(s)>> : s \in TagStrings} \cup {<<NaN>>}
    /\ tags_sorted = <<>>
    /\ tags_again = <<>>
    /\ tags_read = <<>>
    /\ tpc = "in"
    /\ version = "saccharin"
    /\ args = Args(None, DefaultHigh, DefaultLow)
    /\ csv = DataFrame(<<>>, <<>>)
    /\ pc = "off"
    /\ err = ""
    /\ sugar_df = DataFrame(<<>>, <<>>)
    /\ stats_df = NoStats
    /\ lerp_nan = FALSE
    /\ workbook = NoWorkbook
    /\ out_file = OutFile("absent", <<>>)

SortTags ==
    /\ tpc = "in"
    /\ tags_sorted' = sort_tags(tags_in)
    /\ tpc' = "sorted"
    /\ UNCHANGED <<pipeVars, tags_in, tags_again, tags_read>>

SortTagsAgain ==
    /\ tpc = "sorted"
    /\ tags_again' = sort_tags(tags_sorted)
    /\ tpc' = "again"
    /\ UNCHANGED <<pipeVars, tags_in, tags_sorted, tags_read>>

ReadTags ==
    /\ tpc = "again"
    /\ tags_read' = read_tags(tags_in)
    /\ tpc' = "read"
    /\ UNCHANGED <<pipeVars, tags_in, tags_sorted, tags_again>>

NextTags ==
    \/ SortTags
    \/ SortTagsAgain
    \/ ReadTags

SpecTags == InitTags /\ [][NextTags]_vars

-----------------------------------------------------------------------------
(* Properties *)

\* a glycemia cell that says yes, before or after bool_to_str
FlagSet(c) == c = Bool(TRUE) \/ c = Str(Yes)

Derived(col) == HasColumn(sugar_df, col)

RowIds == 1..NRows(sugar_df)

\* n/d > m/1 and n/d < m/1 on a finite float, written out
Above(c, tenths) == c.kind = "num" /\ 10 * c.n > tenths * c.d

Below(c, tenths) == c.kind = "num" /\ 10 * c.n < tenths * c.d

\* C6: no record is both hyperglycemic and hypoglycemic, in either script, and
\* a record whose blood sugar is missing is neither
C6_GlycemiaExclusive ==
    (Derived(HyperCol) /\ Derived(HypoCol)) =>
        \A i \in RowIds :
            LET r == sugar_df.rows[i]
            IN  /\ ~(FlagSet(r[HyperCol]) /\ FlagSet(r[HypoCol]))
                /\ FlagSet(r[HyperCol]) = Above(r[SugarCol], 100)
                /\ FlagSet(r[HypoCol]) = Below(r[SugarCol], 40)
                /\ IsNaN(r[SugarCol]) => ~FlagSet(r[HyperCol]) /\ ~FlagSet(r[HypoCol])

\* a run of sweetener holding a hyperglycemic record, a hypoglycemic record
\* and a record without a blood sugar value
C6_Witness ==
    /\ version = "sweetener"
    /\ pc = "done"
    /\ NRows(sugar_df) = 3
    /\ \E i, j, k \in RowIds :
          /\ FlagSet(sugar_df.rows[i][HyperCol]) /\ ~FlagSet(sugar_df.rows[i][HypoCol])
          /\ FlagSet(sugar_df.rows[j][HypoCol]) /\ ~FlagSet(sugar_df.rows[j][HyperCol])
          /\ IsNaN(sugar_df.rows[k][SugarCol])
          /\ sugar_df.rows[k][HyperCol] = Str(No)
          /\ sugar_df.rows[k][HypoCol] = Str(No)

HasStat(label) == Contains(stats_df.cols, label)

\* C9: the count cells of the Hyperglycemia and Hypoglycemia columns of the
\* statistics are the numbers of records above 10.0 and below 4.0, not the
\* number of records
C9_GlycemiaCounts ==
    (HasStat(Label(HyperCol)) /\ HasStat(Label(HypoCol))) =>
        /\ stats_df.cells["count"][Label(HyperCol)] =
              Num(Cardinality({i \in RowIds : Above(sugar_df.rows[i][SugarCol], 100)}), 1)
        /\ stats_df.cells["count"][Label(HypoCol)] =
              Num(Cardinality({i \in RowIds : Below(sugar_df.rows[i][SugarCol], 40)}), 1)

\* the records 11.0, 3.0, 7.0 give the counts 1 and 1
C9_Witness ==
    /\ pc = "done"
    /\ NRows(sugar_df) = 3
    /\ sugar_df.rows[1][SugarCol] = Tenths(110)
    /\ sugar_df.rows[2][SugarCol] = Tenths(30)
    /\ sugar_df.rows[3][SugarCol] = Tenths(70)
    /\ stats_df.cells["count"][Label(HyperCol)] = Num(1, 1)
    /\ stats_df.cells["count"][Label(HypoCol)] = Num(1, 1)

\* a finite reading strictly over, strictly under a finite limit, written out
Over(c, limit) == c.kind = "num" /\ c.n * limit.d > limit.n * c.d

Under(c, limit) == c.kind = "num" /\ c.n * limit.d < limit.n * c.d

\* C5: every record's Outlier is High if its blood sugar is above
\* --outlier-high, otherwise Low if it is below --outlier-low, otherwise
\* empty; the comparisons are strict, so a value equal to a limit does not get
\* that limit's label, and High wins when both comparisons hold
C5_OutlierLabel ==
    Derived(OutlierCol) =>
        \A i \in RowIds :
            LET g == sugar_df.rows[i][SugarCol]
                label == sugar_df.rows[i][OutlierCol]
                high == args.outlier_high
                low == args.outlier_low
            IN  /\ label \in {Str(High), Str(Low), Str(<<>>)}
                /\ (label = Str(High)) = Over(g, high)
                /\ (label = Str(Low)) = (~Over(g, high) /\ Under(g, low))
                /\ g = high => label # Str(High)
                /\ g = low => label # Str(Low)
                /\ (Over(g, high) /\ Under(g, low)) => label = Str(High)

\* with the default limits 9.5 and 4.5: 4.5 and 9.5 get no label, 11.0 is High
C5_Witness ==
    /\ Derived(OutlierCol)
    /\ args.outlier_high = Tenths(95)
    /\ args.outlier_low = Tenths(45)
    /\ \E i, j, k \in RowIds :
          /\ sugar_df.rows[i][SugarCol] = Tenths(45)
          /\ sugar_df.rows[i][OutlierCol] = Str(<<>>)
          /\ sugar_df.rows[j][SugarCol] = Tenths(95)
          /\ sugar_df.rows[j][OutlierCol] = Str(<<>>)
          /\ sugar_df.rows[k][SugarCol] = Tenths(110)
          /\ sugar_df.rows[k][OutlierCol] = Str(High)

\* the records read_sugar_df returned for the export
Loaded == IF version = "saccharin" THEN read_sugar_df(csv) ELSE sweetener_read_sugar_df(csv)

\* the rows of a DataFrame dated on or after --start-from, all of them without it
OnOrAfter(df) ==
    SelectIdx(df.rows,
        [i \in 1..NRows(df) |->
            args.start_from = None \/ df.rows[i][DateCol].n >= args.start_from.n], 1)

Filtered == pc \notin {"read", "filter", "off"}

\* C8: the records past the date filter are exactly the loaded records dated
\* on or after --start-from, in their order, whatever their time of day; all
\* loaded records without --start-from
C8_StartFrom ==
    Filtered =>
        \A loaded \in {Loaded} : \A kept \in {OnOrAfter(loaded)} :
            /\ NRows(sugar_df) = Len(kept)
            /\ \A i \in RowIds : \A c \in Range(loaded.cols) :
                  sugar_df.rows[i][c] = kept[i][c]
            /\ args.start_from # None =>
                  \A i \in RowIds : sugar_df.rows[i][DateCol].n >= args.start_from.n
            /\ Cardinality({i \in 1..NRows(csv) :
                               args.start_from = None
                               \/ csv.rows[i][DateCol].n >= args.start_from.n})
                  = NRows(sugar_df)

\* --start-from is day 2; the export holds day 2 in the morning, day 1 at
\* night and day 3: the first and the last are kept in that order
C8_Witness ==
    /\ pc = "done"
    /\ args.start_from = Date(2)
    /\ NRows(csv) = 3
    /\ csv.rows[1][DateCol] = Date(2) /\ csv.rows[1][TimeCol] = Morning
    /\ csv.rows[2][DateCol] = Date(1) /\ csv.rows[2][TimeCol] = Night
    /\ csv.rows[3][DateCol] = Date(3)
    /\ NRows(sugar_df) = 2
    /\ sugar_df.rows[1][DateCol] = Date(2)
    /\ sugar_df.rows[2][DateCol] = Date(3)

\* the statistics hold the meal columns: the run is past the join
MealJoined ==
    \/ pc \in {"template", "save", "saving", "done"}
    \/ pc = "failed" /\ err \in {"AttributeError", "OSError"}

\* the Tags strings of the records that name a meal: those in which one of
\* Breakfast, Lunch, Dinner, Snack occurs
MealTagStrings ==
    {sugar_df.rows[i][TagsCol].s : i \in
        {j \in RowIds :
            /\ sugar_df.rows[j][TagsCol].kind = "str"
            /\ \E w \in {Breakfast, Lunch, Dinner, Snack} :
                  HasSubstring(sugar_df.rows[j][TagsCol].s, w)}}

\* the blood sugar readings, missing ones left out, of the records whose Tags
\* are exactly s: their number and their sum
ReadingsOf(s) ==
    {i \in RowIds :
        /\ sugar_df.rows[i][TagsCol] = Str(s)
        /\ ~IsNaN(sugar_df.rows[i][SugarCol])}

RECURSIVE SumOver(_)
SumOver(ids) ==
    IF ids = {} THEN Num(0, 1)
    ELSE LET i == CHOOSE j \in ids : TRUE
         IN  FAdd(sugar_df.rows[i][SugarCol], SumOver(ids \ {i}))

\* C10: the statistics get exactly one column per distinct Tags string that
\* holds a meal word, named "<Tags> (mmol/L)"; its mean row is the mean blood
\* sugar of the records with exactly those Tags, every other row is undefined
\* and is rendered empty
C10_MealColumns ==
    (version = "saccharin" /\ MealJoined) =>
        /\ {c \in Range(stats_df.cols) : c.tag # <<>>}
              = {MealLabel(s) : s \in MealTagStrings}
        /\ \A i, j \in 1..Len(stats_df.cols) :
              stats_df.cols[i] = stats_df.cols[j] => i = j
        /\ \A s \in MealTagStrings :
              /\ stats_df.cells["mean"][MealLabel(s)] =
                    IF ReadingsOf(s) = {} THEN NaN
                    ELSE FDiv(SumOver(ReadingsOf(s)), Num(Cardinality(ReadingsOf(s)), 1))
              /\ \A r \in Range(StatRows) \ {"mean"} :
                    stats_df.cells[r][MealLabel(s)] = NaN
        /\ workbook # NoWorkbook =>
              \A j \in 1..Len(stats_df.cols) : \A i \in 1..Len(StatRows) :
                  (stats_df.cols[j].tag # <<>> /\ StatRows[i] # "mean") =>
                      workbook.sheets[2].rows[i][j] = Str(<<>>)

\* Lunch,Breakfast at 5.0 and Breakfast,Lunch at 8.0 share one column with
\* mean 6.5, Snacks has its own, and the sheet shows the mean as 6.5
C10_Witness ==
    /\ pc = "done"
    /\ NRows(csv) = 3
    /\ csv.rows[1][TagsCol] = Str(Lunch \o <<Comma>> \o Breakfast)
    /\ csv.rows[1][SugarCol] = Tenths(50)
    /\ csv.rows[2][TagsCol] = Str(Breakfast \o <<Comma>> \o Lunch)
    /\ csv.rows[2][SugarCol] = Tenths(80)
    /\ csv.rows[3][TagsCol] = Str(Snacks)
    /\ Cardinality({c \in Range(stats_df.cols) : c.tag # <<>>}) = 2
    /\ stats_df.cells["mean"][MealLabel(Breakfast \o <<Comma>> \o Lunch)] = Num(13, 2)
    /\ \E j \in 1..Len(stats_df.cols) :
          /\ stats_df.cols[j] = MealLabel(Breakfast \o <<Comma>> \o Lunch)
          /\ workbook.sheets[2].rows[2][j] = Dec1(65)
          /\ workbook.sheets[2].rows[1][j] = Str(<<>>)

\* the strings whose comma-separated items are those of s in some order
Reorderings(s) ==
    LET items == Split(s)
    IN  {Join([i \in 1..Len(items) |-> items[p[i]]]) :
            p \in Permutations(1..Len(items))}

\* a list of str in nondecreasing lexicographic order
IsSortedList(items) ==
    \A i, j \in 1..Len(items) : i < j => ~StrLess(items[j], items[i])

CellNamed(sheet, r, name) ==
    LET j == CHOOSE k \in 1..Len(sheet.header) : sheet.header[k] = name
    IN  sheet.rows[r - 1][j]

\* C1: on Sheet 1 the first fill rule fires on exactly the data rows whose
\* Hyperglycemia or Hypoglycemia cell is yes, the second on exactly those whose
\* Outlier cell is High or Low: the columns the rules read are these three
C1_FillRules ==
    (version = "saccharin" /\ workbook # NoWorkbook) =>
        \A sheet \in {workbook.sheets[1]} : \A r \in 2..sheet.table.max_row :
            /\ RuleFires(sheet, workbook.rules[1], r) =
                  (\/ CellNamed(sheet, r, HyperCol) = Str(Yes)
                   \/ CellNamed(sheet, r, HypoCol) = Str(Yes))
            /\ RuleFires(sheet, workbook.rules[2], r) =
                  (CellNamed(sheet, r, OutlierCol) \in {Str(High), Str(Low)})

\* what does hold of the rules: the second reads the Outlier column and fires
\* on exactly the High and Low rows; the first reads the two insulin columns
\* __main__ appended after the glycemia columns and fires on no row
C1_RulesAsBuilt ==
    (version = "saccharin" /\ workbook # NoWorkbook) =>
        \A sheet \in {workbook.sheets[1]} :
            /\ sheet.header[workbook.rules[1].cols[1]] = TotalInsulinCol
            /\ sheet.header[workbook.rules[1].cols[2]] = ICRCol
            /\ sheet.header[workbook.rules[2].cols[1]] = OutlierCol
            /\ \A r \in 1..sheet.table.max_row :
                  /\ ~RuleFires(sheet, workbook.rules[1], r)
                  /\ RuleFires(sheet, workbook.rules[2], r) =
                        (r > 1 /\ CellNamed(sheet, r, OutlierCol) \in {Str(High), Str(Low)})

\* a source column whose cells are all missing, or blank once trimmed
EmptyInExport(c) ==
    \A i \in 1..NRows(csv) :
        \/ IsNaN(csv.rows[i][c])
        \/ csv.rows[i][c].kind = "str" /\ Strip(csv.rows[i][c].s) = <<>>

\* C2: a source column that is empty in every row is dropped by read_sugar_df,
\* no later statement assumes it (the run does not end in a KeyError) and it
\* is not on Sheet 1; a column with a value in some row is kept
C2_EmptyColumns ==
    (version = "saccharin" /\ pc \notin {"read", "off"}) =>
        \A c \in Range(col_dtypes) :
            IF EmptyInExport(c)
            THEN /\ ~HasColumn(sugar_df, c)
                 /\ ~(pc = "failed" /\ err = "KeyError")
                 /\ workbook # NoWorkbook => ~Contains(workbook.sheets[1].header, c)
            ELSE HasColumn(sugar_df, c)

\* the part of C2 that holds: the empty columns, and only they, are dropped
C2_DropOnly ==
    (version = "saccharin" /\ pc \notin {"read", "off"}) =>
        \A c \in Range(col_dtypes) : EmptyInExport(c) = ~HasColumn(sugar_df, c)

\* the records with no mealtime insulin and some carbohydrates
ZeroInsulin ==
    {i \in RowIds :
        /\ sugar_df.rows[i][TotalInsulinCol] = Num(0, 1)
        /\ sugar_df.rows[i][CarbsCol].kind = "num"
        /\ sugar_df.rows[i][CarbsCol].n # 0}

FiniteRatios == {i \in RowIds : sugar_df.rows[i][ICRCol].kind = "num"}

RECURSIVE RatioSum(_)
RatioSum(ids) ==
    IF ids = {} THEN Num(0, 1)
    ELSE LET i == CHOOSE j \in ids : TRUE
         IN  FAdd(sugar_df.rows[i][ICRCol], RatioSum(ids \ {i}))

\* C3: a record with Total Insulin (Meal) 0.0 and carbohydrates has a
\* non-finite ratio, describe and the statistic formatter do not raise, and the
\* mean of the ratio column is the mean over the records with a finite ratio
C3_ZeroInsulinMean ==
    (HasStat(Label(ICRCol)) /\ ZeroInsulin # {}) =>
        /\ \A i \in ZeroInsulin : sugar_df.rows[i][ICRCol].kind \in {"inf", "ninf"}
        /\ err \in {"", "OSError"}
        /\ stats_df.cells["mean"][Label(ICRCol)] =
              IF FiniteRatios = {} THEN NaN
              ELSE FDiv(RatioSum(FiniteRatios), Num(Cardinality(FiniteRatios), 1))

\* what does hold there: nothing raises, and the mean is infinite
C3_MeanIsInfinite ==
    (HasStat(Label(ICRCol)) /\ ZeroInsulin # {}) =>
        /\ \A i \in ZeroInsulin : sugar_df.rows[i][ICRCol] = Inf
        /\ err \in {"", "OSError"}
        /\ stats_df.cells["mean"][Label(ICRCol)] = Inf

\* C4: however the run ends, the output path holds no file of this run or a
\* complete two-sheet workbook, and nothing is written to it before reading,
\* derivation, aggregation and templating are done
C4_NoPartialOutput ==
    /\ pc \in {"done", "failed"} =>
          \/ out_file.state = "absent"
          \/ out_file.state = "complete" /\ Len(out_file.sheets) = 2
    /\ pc \notin {"saving", "done", "failed"} => out_file.state = "absent"

\* the part of C4 that holds: the path is untouched until workbook.save, and a
\* run that ends normally leaves both sheets
C4_WrittenLast ==
    /\ pc \notin {"saving", "done", "failed"} => out_file.state = "absent"
    /\ out_file.state # "absent" => workbook # NoWorkbook
    /\ pc = "done" => out_file = OutFile("complete", workbook.sheets)

=============================================================================
